---------------------------- MODULE Spec2Model ----------------------------
(***************************************************************************)
(* A model of the enstaller facade (enstaller/enpkg.py, class Enpkg):      *)
(* planning of fetch/remove/install actions from a requirement and the     *)
(* execution of such a plan against the egg collections of the prefixes.   *)
(* The resolver, the egg collections, the fetch API and the history log    *)
(* are collaborators of the facade and are modelled by their contracts.    *)
(***************************************************************************)
EXTENDS Integers, Sequences, FiniteSets, TLC

(***************************************************************************)
(* Bounds                                                                  *)
(***************************************************************************)
\* number of super-operation ids uuid4() can hand out in one behaviour
MaxBatches == 2
\* number of revisions a history scope may append in one behaviour
MaxRevs == 1
\* number of requirements one enpkg run is given on its command line
MaxReqs == 2
\* number of revisions the history log holds at most when enpkg is run
MaxLog == 4

(***************************************************************************)
(* The universe of eggs and the metadata the index holds for them          *)
(***************************************************************************)
None == -1

NPrefixes == 2
Prefixes == 1..NPrefixes

A1 == "a-1-1.egg"
A2 == "a-2-1.egg"
B1 == "b-1-1.egg"
C1 == "c-1-1.egg"
Eggs == {A1, A2, B1, C1}

\* Req(req_string): name, version and build; an absent field is None
Req(name, version, build) == [name |-> name, version |-> version, build |-> build]

\* split_eggname(eggname): (name, version, build) of an egg filename
split_eggname(egg) ==
    CASE egg = A1 -> <<"a", 1, 1>>
      [] egg = A2 -> <<"a", 2, 1>>
      [] egg = B1 -> <<"b", 1, 1>>
      [] egg = C1 -> <<"c", 1, 1>>

\* the dependency requirements (packages) of the metadata record of an egg
packages(egg) ==
    CASE egg = A1 -> <<Req("d", None, None)>>
      [] egg = A2 -> <<Req("b", None, None)>>
      [] egg = B1 -> <<Req("c", None, None)>>
      [] egg = C1 -> <<>>

\* the metadata record of an egg, as the index publishes it
Metadata(egg) ==
    [name     |-> split_eggname(egg)[1],
     version  |-> split_eggname(egg)[2],
     build    |-> split_eggname(egg)[3],
     packages |-> packages(egg)]

\* the keys of the store the facade is constructed with; no egg of it is
\* named "d", so the dependency of a-1-1.egg has no candidate
StoreKeys == Eggs

\* an argument of install_actions: a requirement object or an egg filename
ReqArg(req) == [kind |-> "req", req |-> req, egg |-> ""]
EggArg(egg) == [kind |-> "egg", req |-> Req("", None, None), egg |-> egg]

\* the requirements and egg filenames the facade is called with
NameReqs == {Req("a", None, None), Req("c", None, None)}
PinnedReqs == {Req("a", 1, 1), Req("c", 2, None)}
Args == {ReqArg(r) : r \in NameReqs \cup {Req("c", 2, None)}} \cup {EggArg(A1)}

Modes == {"root", "recur"}

(***************************************************************************)
(* Requirements                                                            *)
(***************************************************************************)
\* Req.matches(info): every field the requirement pins equals the record's
matches(req, info) ==
    /\ req.name = info.name
    /\ (req.version # None => req.version = info.version)
    /\ (req.build # None => req.build = info.build)

\* '%s %s-%d' % split_eggname(arg) parsed by Req: all three fields pinned
req_from_anything(arg) ==
    IF arg.kind = "req" THEN arg.req
    ELSE Req(split_eggname(arg.egg)[1], split_eggname(arg.egg)[2],
             split_eggname(arg.egg)[3])

(***************************************************************************)
(* Sequence helpers                                                        *)
(***************************************************************************)
Range(s) == {s[i] : i \in DOMAIN s}

Reverse(s) == [i \in 1..Len(s) |-> s[Len(s) + 1 - i]]

RECURSIVE SelectSeqBy(_, _)
\* [e for e in s if e in keep]
SelectSeqBy(s, keep) ==
    IF s = <<>> THEN <<>>
    ELSE IF Head(s) \in keep
         THEN <<Head(s)>> \o SelectSeqBy(Tail(s), keep)
         ELSE SelectSeqBy(Tail(s), keep)

\* [(label, e) for e in s]
MapSeq(s, label) == [i \in 1..Len(s) |-> <<label, s[i]>>]

\* the eggs of the actions of plan p that carry the label, in plan order
EggsOf(p, label) ==
    LET Labelled(a) == a[1] = label
        sel == SelectSeq(p, Labelled)
    IN [i \in 1..Len(sel) |-> sel[i][2]]


(***************************************************************************)
(* The resolver (resolve.Resolve), by its contract                         *)
(***************************************************************************)
NoEgg == ""

\* ordering of package names (ASCII lowercase)
NameRank(name) ==
    CASE name = "a" -> 1 [] name = "b" -> 2 [] name = "c" -> 3 [] name = "d" -> 4

\* (comparable_version, build) of e1 is below that of e2
OlderThan(e1, e2) ==
    \/ Metadata(e1).version < Metadata(e2).version
    \/ /\ Metadata(e1).version = Metadata(e2).version
       /\ Metadata(e1).build < Metadata(e2).build

\* the chosen egg of a requirement: the latest candidate, NoEgg without one
get_egg(store, req) ==
    LET candidates == {e \in store : matches(req, Metadata(e))}
    IN IF candidates = {} THEN NoEgg
       ELSE CHOOSE e \in candidates :
                \A o \in candidates \ {e} : OlderThan(o, e)

\* the chosen eggs of the dependency requirements of an egg
DepEggs(store, egg) ==
    {get_egg(store, packages(egg)[i]) : i \in DOMAIN packages(egg)}

RECURSIVE Closure(_, _)
\* the eggs reached from S through dependencies (NoEgg marks a miss)
Closure(store, S) ==
    LET next == S \cup UNION {DepEggs(store, e) : e \in S \ {NoEgg}}
    IN IF next = S THEN S ELSE Closure(store, next)

RECURSIVE TopoOrder(_, _, _)
\* dependencies before dependents, ties by name
TopoOrder(store, remaining, placed) ==
    LET ready == {e \in remaining : DepEggs(store, e) \subseteq Range(placed)}
    IN IF remaining = {} \/ ready = {} THEN placed
       ELSE LET e == CHOOSE x \in ready : \A y \in ready :
                         NameRank(Metadata(x).name) <= NameRank(Metadata(y).name)
            IN TopoOrder(store, remaining \ {e}, Append(placed, e))

NoSequence == [ok |-> FALSE, eggs |-> <<>>]

\* Resolve.install_sequence(req, mode): the eggs to install, requested one
\* last, or NoSequence (None) when a requirement has no candidate
install_sequence(store, req, mode) ==
    LET root == get_egg(store, req)
        all == Closure(store, {root})
    IN IF root = NoEgg THEN NoSequence
       ELSE IF mode = "root" THEN [ok |-> TRUE, eggs |-> <<root>>]
       ELSE IF NoEgg \in all THEN NoSequence
       ELSE [ok |-> TRUE, eggs |-> TopoOrder(store, all, <<>>)]

(***************************************************************************)
(* State                                                                   *)
(***************************************************************************)
VARIABLES
    hook,           \* Enpkg.hook: versioned egg directories
    remote,         \* the keys of the store the facade was constructed with
    installed,      \* installed[p]: the eggs installed in prefix p (self.ec)
    cache,          \* the eggs present in local_dir (<prefixes[0]>/LOCAL-REPO)
    connected,      \* Enpkg._connected
    connects,       \* the calls of remote.connect that have returned since
                    \* _connected was last reset
    super_id,       \* Enpkg.super_id, None when not set
    coll_super_id,  \* coll_super_id[p]: super_id of collection p
    uuids,          \* the number of ids uuid4() has handed out
    pc,             \* "idle": no call in progress; "planned": install_actions
                    \* has returned or raised; "running": inside the loop of
                    \* execute_actions
    call,           \* the arguments of the install_actions/install in progress
    actions,        \* the plan execute_actions is running
    n,              \* the number of actions of the plan that have completed
    progress,       \* the steps the progress manager of the last batch emitted
    ret,            \* what the facade call made last returned or raised
    history,        \* the revisions of the history log of the primary prefix
    scope,          \* the snapshot of an open history scope, NoScope outside
    cli,            \* the enpkg process (main): its options, the requirements
                    \* it has processed, its exit code
    eggname,        \* the string handed to split_eggname, as characters
    split,          \* what split_eggname returned or raised, NotCalled before
    listing,        \* the names of the files in the repository directory
    index_txt,      \* the file index-depend.txt of the directory
    index_bz2,      \* the file index-depend.bz2 of the directory
    depend,         \* the body handed to parse_data, as statements
    index_mode,     \* the argument index of parse_data
    parsed,         \* what parse_data returned or raised
    effects,        \* what code run by parse_data did besides
    proxy_arg,      \* the argument proxystr of setup_proxy
    environ,        \* os.environ: the PROXY_ variables
    opener,         \* the proxy of the opener installed in urllib2
    setup           \* what setup_proxy returned or raised

vars == <<hook, remote, installed, cache, connected, connects, super_id,
          coll_super_id,
          uuids, pc, call, actions, n, progress, ret, history, scope, cli,
          eggname, split, listing, index_txt, index_bz2, depend, index_mode,
          parsed, effects, proxy_arg, environ, opener, setup>>

\* the state of the modules that are used without a facade
units == <<eggname, split, listing, index_txt, index_bz2, depend, index_mode,
           parsed, effects, proxy_arg, environ, opener, setup>>

NotCalled == <<"not called">>

NamingUnused == eggname = <<>> /\ split = NotCalled
\* an empty directory
IndexUnused ==
    /\ listing = {}
    /\ index_txt = [exists |-> FALSE, data |-> <<>>]
    /\ index_bz2 = [exists |-> FALSE, data |-> <<>>]

ParsingUnused ==
    /\ depend = <<>>
    /\ index_mode = FALSE
    /\ parsed = [kind |-> "none", record |-> <<>>, err |-> "", effects |-> {}]
    /\ effects = {}

ProxyUnused ==
    /\ proxy_arg = ""
    /\ environ = [PROXY_HOST |-> <<>>, PROXY_PORT |-> <<>>, PROXY_USER |-> <<>>,
                  PROXY_PASS |-> <<>>]
    /\ opener = ""
    /\ setup = [kind |-> "none", value |-> FALSE, err |-> ""]

UnitsUnused == NamingUnused /\ IndexUnused /\ ParsingUnused /\ ProxyUnused

NoScope == {NoEgg}

\* self._connect(): remote.connect is called unless _connected is set
_connect ==
    /\ connected' = TRUE
    /\ connects' = IF connected THEN connects ELSE connects + 1

\* the return value of a facade call: a plan, nothing, or an error raised
Plan(p) == [kind |-> "plan", plan |-> p, err |-> "", items |-> {}]
Nothing == [kind |-> "none", plan |-> <<>>, err |-> "", items |-> {}]
Raise(e) == [kind |-> "error", plan |-> <<>>, err |-> e, items |-> {}]
\* the (key, entry) pairs a query returned
Items(i) == [kind |-> "items", plan |-> <<>>, err |-> "", items |-> i]

\* no enpkg process is running
NoRun == [kind |-> "none", mode |-> "", force |-> FALSE, forceall |-> FALSE,
          done |-> 0, failed |-> FALSE, code |-> None, entered |-> NoScope]

NoCall == [arg |-> ReqArg(Req("", None, None)), mode |-> "", force |-> FALSE,
           forceall |-> FALSE]
Call(arg, mode, force, forceall) ==
    [arg |-> arg, mode |-> mode, force |-> force, forceall |-> forceall]

(***************************************************************************)
(* The egg collections (eggcollect), by their contract                     *)
(***************************************************************************)
\* JoinedEggCollection.find(egg): the first prefix that has the egg
\* installed, None when no prefix has it
find(egg) ==
    IF \E p \in Prefixes : egg \in installed[p]
    THEN CHOOSE p \in Prefixes :
             /\ egg \in installed[p]
             /\ \A q \in Prefixes : egg \in installed[q] => p <= q
    ELSE None

\* EggCollection.query(**req.as_dict()) on the collection of prefix p
query_collection(p, req) == {e \in installed[p] : matches(req, Metadata(e))}

\* at most one egg per package name
OnePerName(S) == \A e1, e2 \in S : Metadata(e1).name = Metadata(e2).name => e1 = e2

(***************************************************************************)
(* Enpkg.install_actions                                                   *)
(***************************************************************************)
\* faulty variant of rm: installed eggs are not filtered out
rm_keep_all(eggs) == eggs

\* rm = lambda eggs: [e for e in eggs if self.find(e) is None]
rm(eggs) == SelectSeqBy(eggs, {e \in Eggs : find(e) = None})

\* faulty variant of planned_eggs: force is not looked at
planned_eggs_no_force(eggs, force, forceall) ==
    IF ~forceall THEN SelectSeqBy(eggs, {e \in Eggs : find(e) = None}) ELSE eggs

\* faulty variant of planned_eggs: force is tested before forceall
planned_eggs_force_first(eggs, force, forceall) ==
    IF force
    THEN SelectSeqBy(SubSeq(eggs, 1, Len(eggs) - 1), {e \in Eggs : find(e) = None})
             \o <<eggs[Len(eggs)]>>
    ELSE IF forceall THEN eggs
    ELSE SelectSeqBy(eggs, {e \in Eggs : find(e) = None})

\* the eggs of the resolver sequence that are planned
planned_eggs(eggs, force, forceall) ==
    IF ~forceall
    THEN IF force
         THEN rm(SubSeq(eggs, 1, Len(eggs) - 1)) \o <<eggs[Len(eggs)]>>
         ELSE rm(eggs)
    ELSE eggs

\* the eggs a plan removes: for egg in reversed(eggs): if self.find(egg)
removed_eggs(eggs) ==
    IF ~hook
    THEN SelectSeqBy(Reverse(eggs), {e \in Eggs : find(e) # None})
    ELSE <<>>

\* faulty variant of plan_of: the removes are not reversed
plan_of_forward_removes(eggs) ==
    MapSeq(eggs, "fetch") \o MapSeq(Reverse(removed_eggs(eggs)), "remove")
        \o MapSeq(eggs, "install")

\* faulty variant of plan_of: the installs run in reverse resolver order
plan_of_reversed_installs(eggs) ==
    MapSeq(eggs, "fetch") \o MapSeq(removed_eggs(eggs), "remove")
        \o MapSeq(Reverse(eggs), "install")

\* res: the fetches, the removes, the installs
plan_of(eggs) ==
    MapSeq(eggs, "fetch") \o MapSeq(removed_eggs(eggs), "remove")
        \o MapSeq(eggs, "install")

\* faulty variant of install_actions: a failed resolution gives an empty plan
install_actions_no_check(arg, mode, force, forceall) ==
    LET req == req_from_anything(arg)
        seq == install_sequence(remote, req, mode)
    IN IF seq = NoSequence
       THEN Plan(<<>>)
       ELSE Plan(MapSeq(seq.eggs, "fetch") \o MapSeq(seq.eggs, "install"))

install_actions(arg, mode, force, forceall) ==
    LET req == req_from_anything(arg)
        seq == install_sequence(remote, req, mode)
    IN IF seq = NoSequence
       THEN Raise("No egg found for requirement")
       ELSE Plan(plan_of(planned_eggs(seq.eggs, force, forceall)))

(***************************************************************************)
(* Enpkg.remove_actions                                                    *)
(***************************************************************************)
\* faulty variant of remove_actions: of several matching eggs one is taken
remove_actions_any(req) ==
    LET index == query_collection(1, req)
    IN IF req.name = "" THEN Raise("AssertionError")
       ELSE IF Cardinality(index) = 0 THEN Raise("Package not installed")
       ELSE Plan(<<<<"remove", CHOOSE e \in index : TRUE>>>>)

remove_actions(req) ==
    LET index == query_collection(1, req)
    IN IF req.name = "" THEN Raise("AssertionError")
       ELSE IF Cardinality(index) = 0 THEN Raise("Package not installed")
       ELSE IF Cardinality(index) > 1
            THEN IF hook THEN Raise("Package installed more than once")
                 ELSE Raise("AssertionError")
       ELSE Plan(<<<<"remove", CHOOSE e \in index : TRUE>>>>)

(***************************************************************************)
(* Enpkg.query                                                             *)
(***************************************************************************)
\* the name a query filters by (query(name=...)); "" is a query without
\* keyword arguments
QueryNames == {"", "a", "c"}

\* the entries of the store and of the egg collections
RemoteEntry == "remote"
InstalledEntry == "installed"

\* self.remote.query(type='egg', **kwargs), as a dictionary
query_remote(name) ==
    [k \in {e \in remote : name = "" \/ Metadata(e).name = name} |-> RemoteEntry]

\* self.ec.query(**kwargs), as a dictionary: the eggs of all prefixes
query_installed(name) ==
    [k \in {e \in UNION {installed[p] : p \in Prefixes} :
               name = "" \/ Metadata(e).name = name} |-> InstalledEntry]

\* d.update(u)
dict_update(d, u) ==
    [k \in DOMAIN d \cup DOMAIN u |-> IF k \in DOMAIN u THEN u[k] ELSE d[k]]

\* d.iteritems()
iteritems(d) == {<<k, d[k]>> : k \in DOMAIN d}

\* faulty variant of query: the two results are chained, not merged
query_chained(name) ==
    iteritems(query_remote(name)) \cup iteritems(query_installed(name))

\* index = dict(query_remote); index.update(query_installed)
query(name) == iteritems(dict_update(query_remote(name), query_installed(name)))

(***************************************************************************)
(* Initial states: a facade right after construction                       *)
(***************************************************************************)
\* what the secondary prefix (sys.prefix) holds; the facade never writes it
SecondaryStates == {{}, {C1}}

Init ==
    /\ hook \in BOOLEAN
    /\ remote = StoreKeys
    /\ installed \in [Prefixes -> SUBSET Eggs]
    /\ \A p \in Prefixes : p > 1 => installed[p] \in SecondaryStates
    /\ hook \/ OnePerName(installed[1])
    /\ cache = {}
    /\ connected = FALSE
    /\ connects = 0
    /\ super_id = None
    /\ coll_super_id = [p \in Prefixes |-> None]
    /\ uuids = 0
    /\ pc = "idle"
    /\ call = NoCall
    /\ actions = <<>>
    /\ n = 0
    /\ progress = <<>>
    /\ ret = Nothing
    /\ history = <<installed[1]>>
    /\ scope = NoScope
    /\ cli = NoRun
    /\ UnitsUnused

(***************************************************************************)
(* Enpkg.execute_actions                                                   *)
(***************************************************************************)
\* the part of execute_actions before the loop
ExecuteBegin(plan) ==
    IF Len(plan) = 0
    THEN /\ pc' = "idle"
         /\ ret' = Nothing
         /\ call' = NoCall
         /\ UNCHANGED <<super_id, coll_super_id, uuids, actions, n, progress>>
    ELSE /\ uuids < MaxBatches
         /\ uuids' = uuids + 1
         /\ super_id' = uuids + 1
         /\ coll_super_id' = [p \in Prefixes |-> uuids + 1]
         /\ pc' = "running"
         /\ actions' = plan
         /\ n' = 0
         /\ progress' = <<>>
         /\ ret' = Nothing
         /\ UNCHANGED call

\* faulty variant of StepDone: the progress step is emitted before the
\* action, so that it counts the action that is about to run
StepDone_early ==
    /\ n' = n + 1
    /\ progress' = IF n + 1 < Len(actions)
                   THEN Append(Append(progress, n), n + 1)
                   ELSE Append(progress, n)
    /\ UNCHANGED <<pc, call, actions, ret>>

\* an iteration of the loop ran to its end: progress(step=n)
StepDone ==
    /\ n' = n + 1
    /\ progress' = Append(progress, n)
    /\ UNCHANGED <<pc, call, actions, ret>>

\* faulty variant of StepFail: the error is dropped and the loop goes on
StepFail_continue(e) ==
    /\ n' = n + 1
    /\ UNCHANGED <<pc, call, actions, ret, progress>>

\* an iteration of the loop raised: the exception leaves execute_actions
StepFail(e) ==
    /\ pc' = "idle"
    /\ ret' = Raise(e)
    /\ call' = NoCall
    /\ actions' = <<>>
    /\ n' = 0
    /\ UNCHANGED progress

Running(label) ==
    /\ pc = "running"
    /\ n < Len(actions)
    /\ actions[n + 1][1] = label

\* action == 'fetch': self.fetch(egg)
ExecFetch ==
    /\ Running("fetch")
    /\ LET egg == actions[n + 1][2]
       IN /\ _connect
          /\ \/ /\ egg \in remote
                /\ cache' = cache \cup {egg}
                /\ StepDone
             \/ /\ egg \notin remote \/ egg \notin cache
                /\ cache' = cache
                /\ StepFail("fetch failed")
    /\ UNCHANGED <<units, cli, hook, remote, installed, super_id,
                   coll_super_id, uuids, history, scope>>

\* faulty variant of ExecRemove: the error of removing an egg that is not
\* installed leaves execute_actions
ExecRemove_raising ==
    /\ Running("remove")
    /\ LET egg == actions[n + 1][2]
       IN IF egg \in installed[1]
          THEN /\ installed' = [installed EXCEPT ![1] = @ \ {egg}]
               /\ StepDone
          ELSE /\ installed' = installed
               /\ StepFail("not installed")
    /\ UNCHANGED <<units, cli, hook, remote, cache, connected, connects,
                   super_id, coll_super_id, uuids, history, scope>>

\* faulty variant of ExecRemove: the egg is removed from the prefix in which
\* it is found
ExecRemove_where_found ==
    /\ Running("remove")
    /\ LET egg == actions[n + 1][2]
       IN installed' = [p \in Prefixes |->
                           IF p = find(egg) THEN installed[p] \ {egg}
                           ELSE installed[p]]
    /\ StepDone
    /\ UNCHANGED <<units, cli, hook, remote, cache, connected, connects,
                   super_id, coll_super_id, uuids, history, scope>>

\* action == 'remove': self.ec.remove(egg), EnpkgError swallowed
ExecRemove ==
    /\ Running("remove")
    /\ LET egg == actions[n + 1][2]
       IN installed' = [installed EXCEPT ![1] = @ \ {egg}]
    /\ StepDone
    /\ UNCHANGED <<units, cli, hook, remote, cache, connected, connects,
                   super_id, coll_super_id, uuids, history, scope>>

\* faulty variant of ExecInstall: the step ends well although the egg is
\* not recorded as installed
ExecInstall_unrecorded ==
    /\ Running("install")
    /\ LET egg == actions[n + 1][2]
       IN IF egg \in remote /\ egg \in cache
          THEN /\ installed' = installed
               /\ StepDone
          ELSE /\ installed' = installed
               /\ StepFail("install failed")
    /\ UNCHANGED <<units, cli, hook, remote, cache, connected, connects,
                   super_id, coll_super_id, uuids, history, scope>>

\* action == 'install': get_metadata(egg), then self.ec.install
ExecInstall ==
    /\ Running("install")
    /\ LET egg == actions[n + 1][2]
       IN IF egg \in remote /\ egg \in cache
          THEN /\ installed' = [installed EXCEPT ![1] = @ \cup {egg}]
               /\ StepDone
          ELSE /\ installed' = installed
               /\ StepFail("install failed")
    /\ UNCHANGED <<units, cli, hook, remote, cache, connected, connects,
                   super_id, coll_super_id, uuids, history, scope>>

\* the labels execute_actions has a branch for
Labels == {"fetch", "remove", "install"}

\* faulty variant of ExecUnknown: a tuple with an unknown label is skipped
ExecUnknown_skipping ==
    /\ pc = "running"
    /\ n < Len(actions)
    /\ actions[n + 1][1] \notin Labels
    /\ StepDone
    /\ UNCHANGED <<units, cli, hook, remote, installed, cache, connected,
                   connects, super_id, coll_super_id, uuids, history, scope>>

\* else: raise Exception("unknown action: %r" % action)
ExecUnknown ==
    /\ pc = "running"
    /\ n < Len(actions)
    /\ actions[n + 1][1] \notin Labels
    /\ StepFail("unknown action")
    /\ UNCHANGED <<units, cli, hook, remote, installed, cache, connected,
                   connects, super_id, coll_super_id, uuids, history, scope>>

\* the loop is over: the super id is cleared
ExecFinish ==
    /\ pc = "running"
    /\ n = Len(actions)
    /\ super_id' = None
    /\ coll_super_id' = [p \in Prefixes |-> None]
    /\ pc' = "idle"
    /\ call' = NoCall
    /\ actions' = <<>>
    /\ n' = 0
    /\ ret' = Nothing
    /\ UNCHANGED <<units, cli, hook, remote, installed, cache, connected,
                   connects, uuids, progress, history, scope>>

(***************************************************************************)
(* Facade calls                                                            *)
(***************************************************************************)
\* faulty variant of InstallActions: planning already downloads the eggs
InstallActions_fetching(arg, mode, force, forceall) ==
    /\ pc = "idle"
    /\ pc' = "planned"
    /\ _connect
    /\ call' = Call(arg, mode, force, forceall)
    /\ ret' = install_actions(arg, mode, force, forceall)
    /\ cache' = cache \cup Range(EggsOf(ret'.plan, "fetch"))
    /\ UNCHANGED <<units, cli, hook, remote, installed, super_id,
                   coll_super_id, uuids, actions, n, progress, history, scope>>

\* install_actions(arg, mode, force, forceall), called by a client or as
\* the first statement of install
InstallActions(arg, mode, force, forceall) ==
    /\ pc = "idle"
    /\ pc' = "planned"
    /\ _connect
    /\ call' = Call(arg, mode, force, forceall)
    /\ ret' = install_actions(arg, mode, force, forceall)
    /\ UNCHANGED <<units, cli, hook, remote, installed, cache, super_id,
                   coll_super_id, uuids, actions, n, progress, history, scope>>

\* the second statement of install: self.execute_actions(actions); it is not
\* reached when install_actions raised
InstallExecute ==
    /\ pc = "planned"
    /\ ret.kind = "plan"
    /\ ExecuteBegin(ret.plan)
    /\ UNCHANGED <<units, cli, hook, remote, installed, cache, connected,
                   connects, history, scope>>

\* the client takes what install_actions returned or raised, or what query
\* returned
Return ==
    /\ pc \in {"planned", "returned"}
    /\ pc' = "idle"
    /\ call' = NoCall
    /\ ret' = Nothing
    /\ UNCHANGED <<units, cli, hook, remote, installed, cache, connected,
                   connects, super_id, coll_super_id, uuids, actions, n,
                   progress, history, scope>>

Remove(req) ==
    /\ pc = "idle"
    /\ LET r == remove_actions(req)
       IN IF r.kind = "error"
          THEN /\ ret' = r
               /\ UNCHANGED <<super_id, coll_super_id, uuids, pc, call,
                              actions, n, progress>>
          ELSE ExecuteBegin(r.plan)
    /\ UNCHANGED <<units, cli, hook, remote, installed, cache, connected,
                   connects, history, scope>>

\* the plans a client hands to execute_actions itself
ClientPlans ==
    { <<>>,
      << <<"remove", B1>>, <<"fetch", B1>>, <<"install", B1>> >>,
      << <<"install", C1>>, <<"remove", A1>> >>,
      << <<"fetch", B1>>, <<"remote", B1>>, <<"install", B1>> >> }

\* execute_actions(plan), called by a client
ExecuteActions(plan) ==
    /\ pc = "idle"
    /\ ExecuteBegin(plan)
    /\ UNCHANGED <<units, cli, hook, remote, installed, cache, connected,
                   connects, history, scope>>

\* query(name=name), called by a client
Query(name) ==
    /\ pc = "idle"
    /\ pc' = "returned"
    /\ _connect
    /\ ret' = Items(query(name))
    /\ UNCHANGED <<units, cli, hook, remote, installed, cache, super_id,
                   coll_super_id, uuids, call, actions, n, progress, history,
                   scope>>

(***************************************************************************)
(* The history scope around a run (with History(prefix): ...)              *)
(***************************************************************************)
HistoryEnter ==
    /\ pc = "idle"
    /\ scope = NoScope
    /\ scope' = installed[1]
    /\ UNCHANGED <<units, cli, hook, remote, installed, cache, connected,
                   connects, super_id, coll_super_id, uuids, pc, call, actions,
                   n, progress, ret, history>>

HistoryExit ==
    /\ pc = "idle"
    /\ scope # NoScope
    /\ IF installed[1] # scope
       THEN /\ Len(history) < 1 + MaxRevs
            /\ history' = Append(history, installed[1])
       ELSE history' = history
    /\ scope' = NoScope
    /\ UNCHANGED <<units, cli, hook, remote, installed, cache, connected,
                   connects, super_id, coll_super_id, uuids, pc, call, actions,
                   n, progress, ret>>

Next ==
    \/ \E arg \in Args, mode \in Modes, force \in BOOLEAN, forceall \in BOOLEAN :
           InstallActions(arg, mode, force, forceall)
    \/ InstallExecute
    \/ Return
    \/ \E req \in NameReqs \cup PinnedReqs : Remove(req)
    \/ \E plan \in ClientPlans : ExecuteActions(plan)
    \/ \E name \in QueryNames : Query(name)
    \/ ExecFetch
    \/ ExecRemove
    \/ ExecInstall
    \/ ExecUnknown
    \/ ExecFinish

Spec == Init /\ [][Next]_vars

(***************************************************************************)
(* The facade used inside history scopes, in plain mode with one prefix    *)
(* state                                                                   *)
(***************************************************************************)
InitH ==
    /\ Init
    /\ ~hook
    /\ installed[2] = {}

NextH ==
    \/ Next
    \/ HistoryEnter
    \/ HistoryExit

SpecH == InitH /\ [][NextH]_vars

(***************************************************************************)
(* The facade and the connection to its store: the calls above, and        *)
(* reconnect, query_remote, fetch and connect attempts that fail           *)
(***************************************************************************)
\* reconnect(): _connected is reset and _connect runs; ok tells whether
\* remote.connect returns or raises
Reconnect(ok) ==
    /\ pc = "idle"
    /\ pc' = "returned"
    /\ connected' = ok
    /\ connects' = IF ok THEN 1 ELSE 0
    /\ ret' = IF ok THEN Nothing ELSE Raise("connect failed")
    /\ UNCHANGED <<units, cli, hook, remote, installed, cache, super_id,
                   coll_super_id, uuids, call, actions, n, progress, history,
                   scope>>

\* query_remote(name=name), called by a client or by info_list_name
QueryRemote(name) ==
    /\ pc = "idle"
    /\ pc' = "returned"
    /\ _connect
    /\ ret' = Items(iteritems(query_remote(name)))
    /\ UNCHANGED <<units, cli, hook, remote, installed, cache, super_id,
                   coll_super_id, uuids, call, actions, n, progress, history,
                   scope>>

\* fetch(egg), called by a client
Fetch(egg) ==
    /\ pc = "idle"
    /\ pc' = "returned"
    /\ _connect
    /\ IF egg \in remote
       THEN cache' = cache \cup {egg} /\ ret' = Nothing
       ELSE cache' = cache /\ ret' = Raise("fetch failed")
    /\ UNCHANGED <<units, cli, hook, remote, installed, super_id,
                   coll_super_id, uuids, call, actions, n, progress, history,
                   scope>>

\* query_remote, install_actions or fetch called on a facade that is not
\* connected, and remote.connect raises: the call ends in _connect
ConnectRaises ==
    /\ pc = "idle"
    /\ ~connected
    /\ pc' = "returned"
    /\ ret' = Raise("connect failed")
    /\ UNCHANGED <<units, cli, hook, remote, installed, cache, connected,
                   connects, super_id, coll_super_id, uuids, call, actions, n,
                   progress, history, scope>>

InitK ==
    /\ Init
    /\ ~hook
    /\ installed[1] \in {{}, {A1}}
    /\ installed[2] = {}

SpecK ==
    /\ InitK
    /\ [][\/ Next
          \/ \E ok \in BOOLEAN : Reconnect(ok)
          \/ \E name \in QueryNames : QueryRemote(name)
          \/ \E egg \in Eggs : Fetch(egg)
          \/ ConnectRaises]_vars

(***************************************************************************)
(* The command line (main): each enpkg run is a process of its own; what   *)
(* one run leaves to the next is on disk: the installed eggs, the local    *)
(* cache and the history log                                               *)
(***************************************************************************)
\* the keys of the store the runs find: the index has dropped the old egg
\* a-1-1.egg, which may still be installed
CliStoreKeys == StoreKeys \ {A1}

\* the requirements made of the command line arguments (name or
\* name-version)
CliReqs == NameReqs \cup PinnedReqs

\* the REV arguments of --revert; MaxLog is never a revision of the log
RevArgs == 0..MaxLog

\* the eggs whose download fails during one call: none, or all of them
Failures == {{}, Eggs}

\* what is installed in the prefix when enpkg is first run
InitialDisks == {{}, {A1}, {A1, A2}}

\* a run that is inside `with History(prefix)`
Run(remove, no_deps, force, forceall) ==
    [kind |-> IF remove THEN "remove" ELSE "install",
     mode |-> IF no_deps THEN "root" ELSE "recur",
     force |-> force, forceall |-> forceall,
     done |-> 0, failed |-> FALSE, code |-> None, entered |-> installed[1]]

\* a process that has ended with an exit code; failed tells whether an
\* operation of the run has failed, done how many requirements the loop
\* had completed, entered what was installed when the loop began
Exited(code, failed) ==
    [NoRun EXCEPT !.kind = "exited", !.code = code, !.failed = failed,
                  !.done = cli.done, !.entered = cli.entered]

RECURSIVE execute_actions(_, _, _, _)
\* execute_actions run from its first action to its return or to the
\* exception that leaves it, on the primary prefix inst and the cache cch;
\* bad are the eggs whose download fails
execute_actions(plan, inst, cch, bad) ==
    IF plan = <<>>
    THEN [installed |-> inst, cache |-> cch, err |-> ""]
    ELSE LET label == Head(plan)[1]
             egg == Head(plan)[2]
         IN CASE label = "fetch" ->
                     IF egg \in remote /\ (egg \in cch \/ egg \notin bad)
                     THEN execute_actions(Tail(plan), inst, cch \cup {egg}, bad)
                     ELSE [installed |-> inst, cache |-> cch,
                           err |-> "fetch failed"]
              [] label = "remove" ->
                     execute_actions(Tail(plan), inst \ {egg}, cch, bad)
              [] label = "install" ->
                     IF egg \in remote /\ egg \in cch
                     THEN execute_actions(Tail(plan), inst \cup {egg}, cch, bad)
                     ELSE [installed |-> inst, cache |-> cch,
                           err |-> "install failed"]

\* faulty variant of history_exit: the scope is left without a revision
history_exit_silent(inst) ==
    /\ history' = history
    /\ scope' = NoScope

\* History.__exit__ with inst installed in the prefix: a revision is
\* appended if the set is not the one the scope was entered with
history_exit(inst) ==
    /\ IF inst # scope
       THEN /\ Len(history) < MaxLog
            /\ history' = Append(history, inst)
       ELSE history' = history
    /\ scope' = NoScope

\* main up to `with History(prefix):`; with use_resource_index set, enpkg
\* is not bound and the first requirement raises UnboundLocalError
CliStart(remove, no_deps, force, forceall, use_resource_index) ==
    /\ pc = "idle"
    /\ cli = NoRun
    /\ ~(force /\ forceall)
    /\ IF use_resource_index
       THEN /\ cli' = Exited(1, TRUE)
            /\ UNCHANGED scope
       ELSE /\ cli' = Run(remove, no_deps, force, forceall)
            /\ scope' = installed[1]
    /\ UNCHANGED <<units, hook, remote, installed, cache, connected, connects,
                   super_id, coll_super_id, uuids, pc, call, actions, n,
                   progress, ret, history>>

\* install_req(enpkg, req, args): an EnpkgError is printed and sys.exit(1)
\* follows; any other exception leaves main; both pass History.__exit__
CliInstallReq(req, bad) ==
    /\ cli.kind = "install"
    /\ cli.done < MaxReqs
    /\ _connect
    /\ LET r == install_actions(ReqArg(req), cli.mode, cli.force, cli.forceall)
           x == execute_actions(r.plan, installed[1], cache, bad)
       IN IF r.kind = "error"
          THEN /\ history_exit(installed[1])
               /\ cli' = Exited(1, TRUE)
               /\ UNCHANGED <<installed, cache>>
          ELSE /\ installed' = [installed EXCEPT ![1] = x.installed]
               /\ cache' = x.cache
               /\ IF x.err # ""
                  THEN /\ history_exit(x.installed)
                       /\ cli' = Exited(1, TRUE)
                  ELSE /\ cli' = [cli EXCEPT !.done = @ + 1]
                       /\ UNCHANGED <<history, scope>>
    /\ UNCHANGED <<units, hook, remote, super_id, coll_super_id, uuids, pc,
                   call, actions, n, progress, ret>>

\* remove_req(enpkg, req): an EnpkgError is printed and the run goes on; an
\* AssertionError leaves main through History.__exit__
CliRemoveReq(req) ==
    /\ cli.kind = "remove"
    /\ cli.done < MaxReqs
    /\ LET r == remove_actions(req)
           x == execute_actions(r.plan, installed[1], cache, {})
       IN IF r.kind = "error"
          THEN /\ IF r.err = "AssertionError"
                  THEN /\ history_exit(installed[1])
                       /\ cli' = Exited(1, TRUE)
                  ELSE /\ cli' = [cli EXCEPT !.done = @ + 1, !.failed = TRUE]
                       /\ UNCHANGED <<history, scope>>
               /\ UNCHANGED installed
          ELSE /\ installed' = [installed EXCEPT ![1] = x.installed]
               /\ cli' = [cli EXCEPT !.done = @ + 1]
               /\ UNCHANGED <<history, scope>>
    /\ UNCHANGED <<units, hook, remote, cache, connected, connects, super_id,
                   coll_super_id, uuids, pc, call, actions, n, progress, ret>>

\* the loop over the requirements is over: History.__exit__, main returns
CliEnd ==
    /\ cli.kind \in {"install", "remove"}
    /\ cli.done >= 1
    /\ history_exit(installed[1])
    /\ cli' = Exited(0, cli.failed)
    /\ UNCHANGED <<units, hook, remote, installed, cache, connected, connects,
                   super_id, coll_super_id, uuids, pc, call, actions, n,
                   progress, ret>>

\* the process is gone: nothing of the facade it had built is left
CliReap ==
    /\ cli.kind = "exited"
    /\ cli' = NoRun
    /\ connected' = FALSE
    /\ connects' = 0
    /\ ret' = Nothing
    /\ UNCHANGED <<units, hook, remote, installed, cache, super_id,
                   coll_super_id, uuids, pc, call, actions, n, progress,
                   history, scope>>

(***************************************************************************)
(* revert (enpkg --revert REV)                                             *)
(***************************************************************************)
RECURSIVE SetToSeq(_)
\* the order in which a loop runs over a set
SetToSeq(S) ==
    IF S = {} THEN <<>>
    ELSE LET e == CHOOSE x \in S : TRUE
         IN <<e>> \o SetToSeq(S \ {e})

\* the first position of sequence s that holds an element of S, Len(s) + 1
\* when there is none
FirstIn(s, S) ==
    IF \E i \in DOMAIN s : s[i] \in S
    THEN CHOOSE i \in DOMAIN s : s[i] \in S /\ \A j \in 1..(i - 1) : s[j] \notin S
    ELSE Len(s) + 1

\* faulty variant of revert_ops: nothing is removed
revert_ops_no_removes(state, curr, cch, bad) ==
    LET to_install == SetToSeq(state \ curr)
        need_fetch == SelectSeqBy(to_install, Eggs \ cch)
        found == SelectSeqBy(need_fetch, remote)
        stop == FirstIn(found, bad)
        fetched == SubSeq(found, 1, stop - 1)
        present == cch \cup Range(fetched)
        installs == SelectSeqBy(to_install, present)
    IN IF state = curr
       THEN [log |-> <<>>, installed |-> curr, cache |-> cch, err |-> "",
             update |-> FALSE]
       ELSE IF stop <= Len(found)
       THEN [log |-> MapSeq(fetched, "fetch"), installed |-> curr,
             cache |-> present, err |-> "fetch failed", update |-> FALSE]
       ELSE [log |-> MapSeq(fetched, "fetch") \o MapSeq(installs, "install"),
             installed |-> curr \cup Range(installs),
             cache |-> present, err |-> "", update |-> TRUE]

\* faulty variant of revert_ops: the installs run before the removes
revert_ops_installs_first(state, curr, cch, bad) ==
    LET removes == SetToSeq(curr \ state)
        to_install == SetToSeq(state \ curr)
        need_fetch == SelectSeqBy(to_install, Eggs \ cch)
        found == SelectSeqBy(need_fetch, remote)
        stop == FirstIn(found, bad)
        fetched == SubSeq(found, 1, stop - 1)
        present == cch \cup Range(fetched)
        installs == SelectSeqBy(to_install, present)
    IN IF state = curr
       THEN [log |-> <<>>, installed |-> curr, cache |-> cch, err |-> "",
             update |-> FALSE]
       ELSE IF stop <= Len(found)
       THEN [log |-> MapSeq(fetched, "fetch"),
             installed |-> curr,
             cache |-> present, err |-> "fetch failed", update |-> FALSE]
       ELSE [log |-> MapSeq(fetched, "fetch") \o MapSeq(installs, "install")
                         \o MapSeq(removes, "remove"),
             installed |-> (curr \ Range(removes)) \cup Range(installs),
             cache |-> present, err |-> "", update |-> TRUE]

\* the body of revert after get_state: what it does, in order (log), to the
\* eggs curr installed in the prefix and to the cache cch, with target
\* state; bad are the eggs whose download fails.  An egg to install that is
\* not in the cache and that the store does not have is not fetched
\* (`if dist:`), and an egg whose file is then not in the cache is not
\* installed (`if isfile(egg_path):`); update tells whether history.update()
\* is reached
revert_ops(state, curr, cch, bad) ==
    LET removes == SetToSeq(curr \ state)
        to_install == SetToSeq(state \ curr)
        need_fetch == SelectSeqBy(to_install, Eggs \ cch)
        found == SelectSeqBy(need_fetch, remote)
        stop == FirstIn(found, bad)
        fetched == SubSeq(found, 1, stop - 1)
        present == cch \cup Range(fetched)
        installs == SelectSeqBy(to_install, present)
    IN IF state = curr
       THEN [log |-> <<>>, installed |-> curr, cache |-> cch, err |-> "",
             update |-> FALSE]
       ELSE IF stop <= Len(found)
       THEN [log |-> MapSeq(removes, "remove") \o MapSeq(fetched, "fetch"),
             installed |-> curr \ Range(removes),
             cache |-> present, err |-> "fetch failed", update |-> FALSE]
       ELSE [log |-> MapSeq(removes, "remove") \o MapSeq(fetched, "fetch")
                         \o MapSeq(installs, "install"),
             installed |-> (curr \ Range(removes)) \cup Range(installs),
             cache |-> present, err |-> "", update |-> TRUE]

\* History.get_state(rev): the state of revision rev; the log starts with
\* revision 0
get_state(rev) == history[rev + 1]

\* what revert did, as the result of the run
Reverted(log, e) == [kind |-> "reverted", plan |-> log, err |-> e, items |-> {}]

\* history.update(): a revision is appended if the installed set changed
history_update(before, after) ==
    IF after # before
    THEN /\ Len(history) < MaxLog
         /\ history' = Append(history, after)
    ELSE history' = history

\* main with --revert REV: revert(enst, REV), then return; without
\* use_resource_index enst is not bound and the call raises
\* UnboundLocalError; a REV that is not in the log ends in sys.exit(message)
Revert(rev, use_resource_index, bad) ==
    /\ pc = "idle"
    /\ cli = NoRun
    /\ IF ~use_resource_index \/ rev >= Len(history)
       THEN /\ cli' = Exited(1, TRUE)
            /\ ret' = IF use_resource_index THEN Raise("no such revision")
                      ELSE Raise("UnboundLocalError")
            /\ UNCHANGED <<installed, cache, history>>
       ELSE LET r == revert_ops(get_state(rev), installed[1], cache, bad)
            IN /\ installed' = [installed EXCEPT ![1] = r.installed]
               /\ cache' = r.cache
               /\ ret' = Reverted(r.log, r.err)
               /\ IF r.update
                  THEN history_update(installed[1], r.installed)
                  ELSE history' = history
               /\ cli' = Exited(IF r.err = "" THEN 0 ELSE 1, r.err # "")
    /\ UNCHANGED <<units, hook, remote, connected, connects, super_id,
                   coll_super_id, uuids, pc, call, actions, n, progress,
                   scope>>

\* the state of the disk and of the configuration when enpkg is first run
InitC ==
    /\ hook \in BOOLEAN
    /\ remote = CliStoreKeys
    /\ installed \in [Prefixes -> SUBSET Eggs]
    /\ installed[1] \in InitialDisks
    /\ \A p \in Prefixes : p > 1 => installed[p] = {}
    /\ hook \/ OnePerName(installed[1])
    /\ cache = {}
    /\ connected = FALSE
    /\ connects = 0
    /\ super_id = None
    /\ coll_super_id = [p \in Prefixes |-> None]
    /\ uuids = 0
    /\ pc = "idle"
    /\ call = NoCall
    /\ actions = <<>>
    /\ n = 0
    /\ progress = <<>>
    /\ ret = Nothing
    /\ history = <<installed[1]>>
    /\ scope = NoScope
    /\ cli = NoRun
    /\ UnitsUnused

NextC ==
    \/ \E remove, no_deps, force, forceall, use_resource_index \in BOOLEAN :
           CliStart(remove, no_deps, force, forceall, use_resource_index)
    \/ \E req \in CliReqs, bad \in Failures : CliInstallReq(req, bad)
    \/ \E req \in CliReqs : CliRemoveReq(req)
    \/ CliEnd
    \/ \E rev \in RevArgs, use_resource_index \in BOOLEAN, bad \in Failures :
           Revert(rev, use_resource_index, bad)
    \/ CliReap

SpecC == InitC /\ [][NextC]_vars

(***************************************************************************)
(* Modules used without a facade                                           *)
(***************************************************************************)
facade == <<hook, remote, installed, cache, connected, connects, super_id,
            coll_super_id,
            uuids, pc, call, actions, n, progress, ret, history, scope, cli>>

\* no facade has been constructed and no enpkg process runs
NoFacade ==
    /\ hook = FALSE
    /\ remote = {}
    /\ installed = [p \in Prefixes |-> {}]
    /\ cache = {}
    /\ connected = FALSE
    /\ connects = 0
    /\ super_id = None
    /\ coll_super_id = [p \in Prefixes |-> None]
    /\ uuids = 0
    /\ pc = "idle"
    /\ call = NoCall
    /\ actions = <<>>
    /\ n = 0
    /\ progress = <<>>
    /\ ret = Nothing
    /\ history = <<{}>>
    /\ scope = NoScope
    /\ cli = NoRun

(***************************************************************************)
(* Egg filenames (dist_naming)                                             *)
(***************************************************************************)
MaxStem == 5

\* a filename is the sequence of its characters
Digits == <<"0", "1", "2", "3", "4", "5", "6", "7", "8", "9">>

\* int(s) of a string of digits
RECURSIVE int(_)
int(s) ==
    IF s = <<>> THEN 0
    ELSE 10 * int(SubSeq(s, 1, Len(s) - 1))
             + (CHOOSE i \in DOMAIN Digits : Digits[i] = s[Len(s)]) - 1

\* '%d' % k
RECURSIVE str(_)
str(k) ==
    IF k < 10 THEN <<Digits[k + 1]>>
    ELSE str(k \div 10) \o <<Digits[(k % 10) + 1]>>

\* egg_pat.match(s) for egg_pat = r'([^-]+)-([^-]+)-(\d+).egg$': the three
\* groups, or <<>> if there is no match.  The first two groups hold no dash,
\* so they end at the first two dashes of s; what follows is digits, any one
\* character but a newline, then 'egg' at the end of s or right before a
\* final newline.
egg_pat(s) ==
    LET dashes == {i \in DOMAIN s : s[i] = "-"}
        d1 == CHOOSE i \in dashes : \A j \in dashes : i <= j
        d2 == CHOOSE i \in dashes \ {d1} : \A j \in dashes \ {d1} : i <= j
        end == IF s[Len(s)] = "\n" THEN Len(s) - 1 ELSE Len(s)
        dot == end - 3
    IN  IF Cardinality(dashes) < 2 THEN <<>>
        ELSE IF /\ d1 > 1
                /\ d2 > d1 + 1
                /\ dot > d2 + 1
                /\ \A i \in (d2 + 1)..(dot - 1) : s[i] \in Range(Digits)
                /\ s[dot] # "\n"
                /\ SubSeq(s, dot + 1, end) = <<"e", "g", "g">>
             THEN <<SubSeq(s, 1, d1 - 1), SubSeq(s, d1 + 1, d2 - 1),
                    SubSeq(s, d2 + 1, dot - 1)>>
             ELSE <<>>

is_valid_eggname(s) == egg_pat(s) # <<>>

\* split_eggname(s): (name, version, build), the build as an integer; the
\* assert fails if s does not match
split_eggname_str(s) ==
    LET m == egg_pat(s)
    IN  IF m = <<>> THEN <<"AssertionError">>
        ELSE <<m[1], m[2], int(m[3])>>

\* the strings split_eggname is called with: a stem of at most MaxStem
\* letters, digits and dashes, then one of four endings
EggNames ==
    {stem \o ending :
        stem \in UNION {[1..i -> {"a", "-", "0", "1"}] : i \in 0..MaxStem},
        ending \in {<<".", "e", "g", "g">>, <<"x", "e", "g", "g">>,
                    <<".", "e", "g", "g", "\n">>, <<".", "e", "g">>}}

\* split_eggname(eggname)
SplitEggname ==
    /\ split = NotCalled
    /\ split' = split_eggname_str(eggname)
    /\ UNCHANGED <<facade, eggname, listing, index_txt, index_bz2, depend,
                   index_mode, parsed, effects, proxy_arg, environ, opener,
                   setup>>

InitN ==
    /\ NoFacade
    /\ IndexUnused
    /\ ParsingUnused
    /\ ProxyUnused
    /\ eggname \in EggNames
    /\ split = NotCalled

SpecN == InitN /\ [][SplitEggname]_vars

(***************************************************************************)
(* The index files of a repository directory (metadata)                    *)
(***************************************************************************)
MaxSections == 3

\* the files a repository directory may hold besides its index files, as
\* sorted(names, key=string.lower) orders them: two eggs, an egg whose name
\* is not valid, a file that is no egg
SortedNames ==
    << <<"a", "-", "1", "-", "1", ".", "e", "g", "g">>,
       <<"b", "-", "1", "-", "1", ".", "e", "g", "g">>,
       <<"c", ".", "e", "g", "g">>,
       <<"R", "E", "A", "D", "M", "E">> >>
DirNames == Range(SortedNames)

\* fn.endswith('.egg')
endswith_egg(fn) ==
    Len(fn) >= 4 /\ SubSeq(fn, Len(fn) - 3, Len(fn)) = <<".", "e", "g", "g">>

\* a file that exists, with its data
File(data) == [exists |-> TRUE, data |-> data]

\* a line of index-depend.txt: the section header '==> fn <==', or a line of
\* the body of the section of fn
Header(fn) == <<"==>", fn>>
sep_pat(line) == line[1] = "==>"

\* the lines after the header in index_section(zip_path): size, md5, an
\* empty line, and the spec/depend data of the egg
section_body(fn) ==
    << <<"size", fn>>, <<"md5", fn>>, <<"", <<>>>>, <<"spec", fn>> >>

index_section(fn) == <<Header(fn)>> \o section_body(fn)

\* bz2.decompress of what bz2.compress wrote
decompress(c) == c.bz2

\* compress_txt(src): the .bz2 file next to src, written from what src holds
compress_txt(txt) == File([bz2 |-> txt.data])

\* the loop of parse_index over the lines: d[fn].append(line) on the
\* defaultdict(list) d, fn the filename of the header seen last
RECURSIVE parse_lines(_, _, _)
parse_lines(lines, fn, d) ==
    IF lines = <<>> THEN d
    ELSE IF sep_pat(Head(lines))
         THEN parse_lines(Tail(lines), Head(lines)[2], d)
         ELSE parse_lines(Tail(lines), fn,
                          IF fn \in DOMAIN d
                          THEN [d EXCEPT ![fn] = Append(@, Head(lines))]
                          ELSE d @@ (fn :> <<Head(lines)>>))

\* parse_index(data): the body lines found under each filename
parse_index(data) == parse_lines(data, <<>>, <<>>)

\* the sections write_index writes: the eggs of the sorted listing
RECURSIVE write_sections(_, _, _)
write_sections(names, dir, valid_eggnames) ==
    IF names = <<>> THEN <<>>
    ELSE LET fn == Head(names)
             rest == write_sections(Tail(names), dir, valid_eggnames)
         IN  IF fn \notin dir THEN rest
             ELSE IF ~endswith_egg(fn) THEN rest
             ELSE IF valid_eggnames /\ ~is_valid_eggname(fn) THEN rest
             ELSE index_section(fn) \o rest

\* write_index(dir_path, compress, valid_eggnames)
WriteIndex(do_compress, valid_eggnames) ==
    /\ index_txt' = File(write_sections(SortedNames, listing, valid_eggnames))
    /\ index_bz2' = IF do_compress THEN compress_txt(index_txt') ELSE index_bz2
    /\ UNCHANGED <<facade, eggname, split, listing, depend, index_mode,
                   parsed, effects, proxy_arg, environ, opener, setup>>

\* append_dist(zip_path, compress) for a file of the directory; for a file
\* that is no zip file the text index has been opened for appending when
\* index_section raises
AppendDist(fn, do_compress) ==
    /\ fn \in listing
    /\ Cardinality({i \in DOMAIN index_txt.data : sep_pat(index_txt.data[i])})
           < MaxSections
    /\ IF endswith_egg(fn)
       THEN /\ index_txt' = File(index_txt.data \o index_section(fn))
            /\ index_bz2' = IF do_compress THEN compress_txt(index_txt')
                            ELSE index_bz2
       ELSE /\ index_txt' = File(index_txt.data)
            /\ index_bz2' = index_bz2
    /\ UNCHANGED <<facade, eggname, split, listing, depend, index_mode,
                   parsed, effects, proxy_arg, environ, opener, setup>>

InitI ==
    /\ NoFacade
    /\ NamingUnused
    /\ ParsingUnused
    /\ ProxyUnused
    /\ listing \in SUBSET DirNames
    /\ index_txt = [exists |-> FALSE, data |-> <<>>]
    /\ index_bz2 = [exists |-> FALSE, data |-> <<>>]

SpecI ==
    InitI /\ [][\/ \E do_compress, valid_eggnames \in BOOLEAN :
                       WriteIndex(do_compress, valid_eggnames)
                \/ \E fn \in DirNames, do_compress \in BOOLEAN :
                       AppendDist(fn, do_compress)]_vars

(***************************************************************************)
(* Section bodies (metadata.parse_data)                                    *)
(***************************************************************************)
\* the values a body assigns; val is the text of the value
StrValue(s) == [type |-> "str", val |-> s]
IntValue(s) == [type |-> "int", val |-> s]
NoneValue == [type |-> "NoneType", val |-> "None"]

\* a statement of a body; op is "assign" for 'key = value' (literal tells
\* whether the right side is a literal or an expression that gives value),
\* "call" for a call that does key to the process or the disk, "raise" for
\* a statement that raises when it runs, "syntax" for a line that does not
\* compile, "" for no statement
Stmt(op, key, value, literal) ==
    [op |-> op, key |-> key, value |-> value, literal |-> literal]
Assign(key, value) == Stmt("assign", key, value, TRUE)

\* the statements of a compiled body run in order in the namespace ns;
\* eff collects what the calls did
RECURSIVE exec_stmts(_, _, _)
exec_stmts(stmts, ns, eff) ==
    IF stmts = <<>> THEN [ns |-> ns, effects |-> eff, err |-> ""]
    ELSE LET s == Head(stmts)
         IN  CASE s.op = "assign" ->
                      exec_stmts(Tail(stmts),
                                 [k \in DOMAIN ns \cup {s.key} |->
                                      IF k = s.key THEN s.value ELSE ns[k]],
                                 eff)
               [] s.op = "call" ->
                      exec_stmts(Tail(stmts), ns, eff \cup {s.key})
               [] OTHER ->
                      [ns |-> ns, effects |-> eff, err |-> "ZeroDivisionError"]

\* exec data in spec: nothing runs unless the whole body compiles
exec(data) ==
    IF \E i \in DOMAIN data : data[i].op = "syntax"
    THEN [ns |-> <<>>, effects |-> {}, err |-> "SyntaxError"]
    ELSE exec_stmts(data, <<>>, {})

\* value >= '1.1': values that are not strings compare below every string;
\* of the strings '1.0', '1.1' and '2.0' the last two are not below '1.1'
ge_1_1(value) == value.type = "str" /\ value.val \in {"1.1", "2.0"}

var_names == <<"metadata_version", "name", "version", "build", "arch",
               "platform", "osdist", "python", "packages">>
index_var_names == var_names \o <<"md5", "size">>

Parsed(res, eff) ==
    [kind |-> "record", record |-> res, err |-> "", effects |-> eff]
ParseError(e, eff) ==
    [kind |-> "error", record |-> <<>>, err |-> e, effects |-> eff]
NotParsed == [kind |-> "none", record |-> <<>>, err |-> "", effects |-> {}]

\* faulty variant of parse_data: md5 and size are not checked
parse_data_unchecked(data, index) ==
    LET x == exec(data)
        spec == x.ns
        names == IF index THEN index_var_names ELSE var_names
    IN  IF x.err # "" THEN ParseError(x.err, x.effects)
        ELSE IF "metadata_version" \notin DOMAIN spec
        THEN ParseError("KeyError", x.effects)
        ELSE IF ~ge_1_1(spec["metadata_version"])
        THEN ParseError("AssertionError", x.effects)
        ELSE IF \E i \in DOMAIN names : names[i] \notin DOMAIN spec
        THEN ParseError("KeyError", x.effects)
        ELSE Parsed([k \in Range(names) |-> spec[k]], x.effects)

\* parse_data(data, index)
parse_data(data, index) ==
    LET x == exec(data)
        spec == x.ns
        names == IF index THEN index_var_names ELSE var_names
    IN  IF x.err # "" THEN ParseError(x.err, x.effects)
        ELSE IF "metadata_version" \notin DOMAIN spec
        THEN ParseError("KeyError", x.effects)
        ELSE IF ~ge_1_1(spec["metadata_version"])
        THEN ParseError("AssertionError", x.effects)
        ELSE IF index /\ "md5" \notin DOMAIN spec
        THEN ParseError("KeyError", x.effects)
        ELSE IF index /\ ~(/\ spec["md5"].type = "str"
                           /\ Len(spec["md5"].val) = 32)
        THEN ParseError("AssertionError", x.effects)
        ELSE IF index /\ "size" \notin DOMAIN spec
        THEN ParseError("KeyError", x.effects)
        ELSE IF index /\ spec["size"].type # "int"
        THEN ParseError("AssertionError", x.effects)
        ELSE IF \E i \in DOMAIN names : names[i] \notin DOMAIN spec
        THEN ParseError("KeyError", x.effects)
        ELSE Parsed([k \in Range(names) |-> spec[k]], x.effects)

\* the section of an egg as index_section and data_from_spec write it
well_formed(mv, md5, size) ==
    <<Assign("size", size), Assign("md5", md5), Assign("metadata_version", mv),
      Assign("name", StrValue("a")), Assign("version", StrValue("1")),
      Assign("build", IntValue("1")), Assign("arch", NoneValue),
      Assign("platform", NoneValue), Assign("osdist", NoneValue),
      Assign("python", StrValue("2.7")),
      Assign("packages", [type |-> "list", val |-> "[]"])>>

\* the bodies parse_data is called with: a well-formed section with one
\* key left out, other values for metadata_version, md5 and size, and one
\* more statement in front
Bodies ==
    {SelectSeq(<<more>> \o well_formed(mv, md5, size),
               LAMBDA s : s.op # "" /\ s.key # drop) :
        more \in {Stmt("", "", NoneValue, TRUE),
                  Assign("comment", StrValue("x")),
                  Stmt("assign", "built", IntValue("2"), FALSE),
                  Stmt("call", "os.remove", NoneValue, FALSE),
                  Stmt("raise", "", NoneValue, FALSE),
                  Stmt("syntax", "", NoneValue, FALSE)},
        mv \in {StrValue("1.1"), StrValue("1.0"), StrValue("2.0"),
                IntValue("2")},
        md5 \in {StrValue("0123456789abcdef0123456789abcdef"),
                 StrValue("abc"), IntValue("0")},
        size \in {IntValue("1024"), StrValue("1024"), NoneValue},
        drop \in {"none"} \cup Range(index_var_names)}

\* parse_data(depend, index=index_mode): a record, or the error that exec
\* or one of the checks raises
ParseData ==
    /\ parsed = NotParsed
    /\ parsed' = parse_data(depend, index_mode)
    /\ effects' = effects \cup parsed'.effects
    /\ UNCHANGED <<facade, eggname, split, listing, index_txt, index_bz2,
                   depend, index_mode, proxy_arg, environ, opener, setup>>

InitP ==
    /\ NoFacade
    /\ NamingUnused
    /\ IndexUnused
    /\ ProxyUnused
    /\ depend \in Bodies
    /\ index_mode \in BOOLEAN
    /\ parsed = NotParsed
    /\ effects = {}

SpecP == InitP /\ [][ParseData]_vars

(***************************************************************************)
(* Proxy configuration (proxy.util)                                        *)
(***************************************************************************)
\* an optional string: Absent is Python's None, Some(s) the string s
Absent == <<>>
Some(s) == <<s>>
\* s is not None and len(s) > 0
NonEmpty(s) == s # Absent /\ s[1] # ""

default_port == "80"

\* urllib2._parse_proxy(proxystr): (user, password, host and port), or
\* ValueError for a URL with no authority
BadProxy == <<"ValueError">>
parse_proxy(proxystr) ==
    CASE proxystr = "proxy:3128" -> <<Absent, Absent, "proxy:3128">>
      [] proxystr = "proxy" -> <<Absent, Absent, "proxy">>
      [] proxystr = "user:pw@proxy:3128" -> <<Some("user"), Some("pw"), "proxy:3128">>
      [] proxystr = "user@proxy" -> <<Some("user"), Absent, "proxy">>
      [] proxystr = "user:pw@" -> <<Some("user"), Some("pw"), "">>
      [] proxystr = "http:/proxy" -> BadProxy

\* urllib2.splitport(host_port): (host, port), the port None if there is none
splitport(host_port) ==
    CASE host_port = "proxy:3128" -> <<Some("proxy"), Some("3128")>>
      [] host_port = "proxy" -> <<Some("proxy"), Absent>>
      [] host_port = "" -> <<Some(""), Absent>>

\* what the user types at the prompt of getpass.getpass()
Typed == {"", "typed"}

\* os.environ.get(name, default)
environ_get(env, name, default) == IF env[name] = Absent THEN default ELSE env[name]

\* the password is prompted for if a user is given without one
with_prompt(info, typed) ==
    IF NonEmpty(info.user) /\ ~NonEmpty(info.pass)
    THEN [info EXCEPT !.pass = Some(typed)]
    ELSE info

\* what get_proxy_info returns or raises
ProxyInfo(info) == [err |-> "", info |-> info]

\* get_proxy_info(proxystr): the dictionary of proxy information; the
\* ValueError of urllib2._parse_proxy leaves it
get_proxy_info(proxystr, env, typed) ==
    IF proxystr = ""
    THEN ProxyInfo(with_prompt(
             [host |-> environ_get(env, "PROXY_HOST", Absent),
              port |-> environ_get(env, "PROXY_PORT", Some(default_port)),
              user |-> environ_get(env, "PROXY_USER", Absent),
              pass |-> environ_get(env, "PROXY_PASS", Absent)], typed))
    ELSE LET p == parse_proxy(proxystr)
             hp == splitport(p[3])
         IN  IF p = BadProxy
             THEN [err |-> "ValueError",
                   info |-> [host |-> Absent, port |-> Absent,
                             user |-> Absent, pass |-> Absent]]
             ELSE ProxyInfo(with_prompt(
                      [host |-> hp[1],
                       port |-> IF NonEmpty(hp[2]) THEN hp[2]
                                ELSE Some(default_port),
                       user |-> p[1],
                       pass |-> p[2]], typed))

\* get_proxystr(pinfo): proxystr is bound only if a host is given
Unbound == "UnboundLocalError"
get_proxystr(pinfo) ==
    IF NonEmpty(pinfo.host)
    THEN IF NonEmpty(pinfo.user)
         THEN pinfo.user[1] \o ":" \o pinfo.pass[1] \o "@" \o pinfo.host[1]
                  \o ":" \o pinfo.port[1]
         ELSE pinfo.host[1] \o ":" \o pinfo.port[1]
    ELSE Unbound

\* the process-wide opener of urllib2: no proxy, or the proxy it uses
NoOpener == ""

SetupReturned(b) == [kind |-> "return", value |-> b, err |-> ""]
SetupRaised(e) == [kind |-> "error", value |-> FALSE, err |-> e]
NotSetUp == [kind |-> "none", value |-> FALSE, err |-> ""]

\* setup_proxy(proxystr) with install_proxy_handlers: what it returns or
\* raises, and the opener installed afterwards
setup_proxy(proxystr, env, typed, current) ==
    LET x == get_proxy_info(proxystr, env, typed)
        info == x.info
    IN  IF x.err # "" THEN [ret |-> SetupRaised(x.err), opener |-> current]
        ELSE IF info.host = Absent
        THEN [ret |-> SetupReturned(FALSE), opener |-> current]
        ELSE IF get_proxystr(info) = Unbound
        THEN [ret |-> SetupRaised(Unbound), opener |-> current]
        ELSE [ret |-> SetupReturned(TRUE), opener |-> get_proxystr(info)]

\* setup_proxy(proxy_arg) in the environment environ: it returns, or
\* urllib2._parse_proxy or get_proxystr raises
SetupProxy(typed) ==
    /\ setup = NotSetUp
    /\ LET r == setup_proxy(proxy_arg, environ, typed, opener)
       IN /\ setup' = r.ret
          /\ opener' = r.opener
    /\ UNCHANGED <<facade, eggname, split, listing, index_txt, index_bz2,
                   depend, index_mode, parsed, effects, proxy_arg, environ>>

\* proxy_arg is the argument of --proxy ('' if it is not given); os.environ
\* is reduced to the four variables, Absent for a variable that is not set
InitX ==
    /\ NoFacade
    /\ NamingUnused
    /\ IndexUnused
    /\ ParsingUnused
    /\ proxy_arg \in {"", "proxy:3128", "proxy", "user:pw@proxy:3128",
                      "user@proxy", "user:pw@", "http:/proxy"}
    /\ environ \in [PROXY_HOST : {Absent, Some(""), Some("envproxy")},
                    PROXY_PORT : {Absent, Some("8080")},
                    PROXY_USER : {Absent, Some("envuser")},
                    PROXY_PASS : {Absent, Some("envpw")}]
    /\ opener = NoOpener
    /\ setup = NotSetUp

SpecX == InitX /\ [][\E typed \in Typed : SetupProxy(typed)]_vars

(***************************************************************************)
(* Reading a plan                                                          *)
(***************************************************************************)
\* the positions of plan p that hold the action (label, egg)
Positions(p, label, egg) == {i \in DOMAIN p : p[i] = <<label, egg>>}

NoDuplicates(s) == Cardinality(Range(s)) = Len(s)

\* the resolver sequence of the install_actions call in progress
Resolved == install_sequence(remote, req_from_anything(call.arg), call.mode)

\* install_actions has returned a plan to its caller
PlanReturned == pc = "planned" /\ ret.kind = "plan"

\* C1: a plan returned by install_actions is the fetches of the planned eggs
\* in resolver order, then (plain mode only) removes in reverse resolver
\* order, then the installs in resolver order; every planned egg has exactly
\* one fetch and one install, and its fetch precedes its remove (if any),
\* which precedes its install.
C1_PlanShape ==
    PlanReturned =>
        LET p == ret.plan
            F == EggsOf(p, "fetch")
            R == EggsOf(p, "remove")
            I == EggsOf(p, "install")
        IN /\ p = MapSeq(F, "fetch") \o MapSeq(R, "remove") \o MapSeq(I, "install")
           /\ F = SelectSeqBy(Resolved.eggs, Range(F))
           /\ I = F
           /\ NoDuplicates(F)
           /\ R = SelectSeqBy(Reverse(Resolved.eggs), Range(R))
           /\ Range(R) \subseteq Range(F)
           /\ hook => R = <<>>
           /\ \A e \in Range(F) :
                  /\ Cardinality(Positions(p, "fetch", e)) = 1
                  /\ Cardinality(Positions(p, "install", e)) = 1
                  /\ Cardinality(Positions(p, "remove", e)) <= 1
                  /\ \A f \in Positions(p, "fetch", e),
                        i \in Positions(p, "install", e) :
                         /\ f < i
                         /\ \A r \in Positions(p, "remove", e) : f < r /\ r < i

\* a plain-mode plan with two removes has been returned
C1_Witness ==
    /\ PlanReturned
    /\ ~hook
    /\ Len(EggsOf(ret.plan, "remove")) >= 2
    /\ Len(EggsOf(ret.plan, "fetch")) >= 3

\* C2: while execute_actions runs a plan that install_actions produced in
\* mode 'recur', every egg the egg of the install action about to start
\* depends on (transitively, by the index) is installed.
DependenciesOf(egg) == Closure(remote, {egg}) \ {egg}

C2_DepsInstalledAtInstall ==
    (Running("install") /\ call.mode = "recur") =>
        \A d \in DependenciesOf(actions[n + 1][2]) : find(d) # None

\* the install of an egg with dependencies is about to start, in a plan that
\* was shortened and that has run a remove
C2_Witness ==
    /\ Running("install")
    /\ call.mode = "recur"
    /\ DependenciesOf(actions[n + 1][2]) # {}
    /\ Len(EggsOf(actions, "install")) < Len(Resolved.eggs)
    /\ EggsOf(actions, "remove") # <<>>

\* C3: upgrade in plain mode: with an older version of the requested package
\* installed in the primary prefix and a newer one in the store,
\* install_actions(name) returns exactly [fetch new, remove old, install new];
\* in general the plan holds a remove of the installed egg for every planned
\* egg whose package name is installed in the primary prefix.
C3_UpgradeRemovesOld ==
    (PlanReturned /\ ~hook) =>
        LET p == ret.plan
        IN /\ \A e \in Range(EggsOf(p, "fetch")) :
                  \A o \in installed[1] :
                      Metadata(o).name = Metadata(e).name =>
                          <<"remove", o>> \in Range(p)
           /\ ( /\ call = Call(ReqArg(Req("a", None, None)), "recur", FALSE, FALSE)
                /\ installed[1] = {A1, B1, C1}
                /\ installed[2] = {} )
              => p = << <<"fetch", A2>>, <<"remove", A1>>, <<"install", A2>> >>

\* C4: in plain mode the primary prefix, which starts with at most one
\* installed egg per package name, keeps at most one installed egg per
\* package name, so remove_actions never meets more than one match there.
C4_OnePerNameInPlainMode ==
    ~hook =>
        /\ OnePerName(installed[1])
        /\ ret # Raise("AssertionError")
        /\ ret # Raise("Package installed more than once")

\* C5: without force and forceall the plan has no action for a resolved egg
\* that is installed and one fetch and one install for every resolved egg
\* that is not; with nothing installed and a single dependency-free egg
\* resolved the plan is [fetch egg, install egg].
C5_SkipInstalled ==
    (PlanReturned /\ ~call.force /\ ~call.forceall) =>
        LET p == ret.plan
        IN /\ \A e \in Range(Resolved.eggs) :
                  IF find(e) # None
                  THEN \A i \in DOMAIN p : p[i][2] # e
                  ELSE /\ Cardinality(Positions(p, "fetch", e)) = 1
                       /\ Cardinality(Positions(p, "install", e)) = 1
           /\ \A e \in Eggs :
                  ( /\ Resolved.eggs = <<e>>
                    /\ packages(e) = <<>>
                    /\ \A q \in Prefixes : installed[q] = {} )
                  => p = << <<"fetch", e>>, <<"install", e>> >>

\* a plan without force that leaves out an installed egg of the resolver
\* sequence and plans another one
C5_Witness ==
    /\ PlanReturned
    /\ ~call.force
    /\ ~call.forceall
    /\ \E e \in Range(Resolved.eggs) : find(e) # None
    /\ ret.plan # <<>>

\* C6: with force (and not forceall) the plan has a fetch and an install of
\* the requested egg, the last one of the resolver sequence, installed or
\* not; installed dependencies are left out; in plain mode an installed
\* requested egg is removed before it is installed again.
C6_ForceReinstallsLeaf ==
    (PlanReturned /\ call.force /\ ~call.forceall) =>
        LET p == ret.plan
            eggs == Resolved.eggs
            leaf == eggs[Len(eggs)]
        IN /\ leaf = get_egg(remote, req_from_anything(call.arg))
           /\ Cardinality(Positions(p, "fetch", leaf)) = 1
           /\ Cardinality(Positions(p, "install", leaf)) = 1
           /\ \A k \in 1..(Len(eggs) - 1) :
                  find(eggs[k]) # None => \A i \in DOMAIN p : p[i][2] # eggs[k]
           /\ (~hook /\ find(leaf) # None) =>
                  \E r \in Positions(p, "remove", leaf) :
                      \A i \in Positions(p, "install", leaf) : r < i

\* a forced plan in plain mode whose requested egg and one of whose
\* dependencies are installed
C6_Witness ==
    /\ PlanReturned
    /\ call.force
    /\ ~call.forceall
    /\ ~hook
    /\ Len(Resolved.eggs) > 1
    /\ find(Resolved.eggs[Len(Resolved.eggs)]) # None
    /\ find(Resolved.eggs[1]) # None

\* C7: with forceall the plan has one fetch and one install for every egg of
\* the resolver sequence, whatever is installed, and in plain mode a remove
\* for each of them that is installed; force being set as well changes
\* nothing.
C7_ForceallReinstallsAll ==
    (PlanReturned /\ call.forceall) =>
        LET p == ret.plan
            eggs == Resolved.eggs
        IN /\ EggsOf(p, "fetch") = eggs
           /\ EggsOf(p, "install") = eggs
           /\ Len(p) = 2 * Len(eggs) + Len(EggsOf(p, "remove"))
           /\ ~hook => Range(EggsOf(p, "remove")) =
                           {e \in Range(eggs) : find(e) # None}
           /\ hook => EggsOf(p, "remove") = <<>>

\* a plan made with force and forceall both set although a dependency and
\* the requested egg are installed
C7_Witness ==
    /\ PlanReturned
    /\ call.forceall
    /\ call.force
    /\ Len(Resolved.eggs) > 1
    /\ \A e \in Range(Resolved.eggs) : find(e) # None

\* C8: install_actions is pure: the step in which it runs, whether it
\* returns a plan or raises, leaves the installed set of every prefix, the
\* local cache, the history log and the super-operation id as they were.
C8_InstallActionsPure ==
    [][(pc = "idle" /\ pc' = "planned") =>
           UNCHANGED <<installed, cache, history, scope, super_id,
                       coll_super_id, uuids>>]_vars

\* install_actions has run on a facade whose state earlier calls have
\* changed: eggs are installed and cached, and the history log has grown
C8_Witness ==
    /\ pc = "planned"
    /\ connected
    /\ cache # {}
    /\ Len(history) > 1
    /\ scope # NoScope

\* the resolver finds no egg for the requirement of the call in progress, or
\* (mode 'recur') for one of the dependencies
NoCandidate ==
    LET root == get_egg(remote, req_from_anything(call.arg))
    IN \/ root = NoEgg
       \/ call.mode = "recur" /\ NoEgg \in Closure(remote, {root})

\* C9: when the resolver finds no egg for the requirement or for one of its
\* dependencies, install_actions raises the no-candidate error instead of
\* returning a plan, and install then executes nothing: the installed sets
\* and the local cache stay as they are.
C9_NoCandidateFails ==
    [][(pc = "planned" /\ NoCandidate) =>
           /\ ret = Raise("No egg found for requirement")
           /\ pc' = "idle"
           /\ UNCHANGED <<installed, cache, super_id, uuids, progress>>]_vars

\* install_actions has failed on a dependency without candidate, on a facade
\* with something installed
C9_Witness ==
    /\ pc = "planned"
    /\ ret.kind = "error"
    /\ call.mode = "recur"
    /\ get_egg(remote, req_from_anything(call.arg)) # NoEgg
    /\ installed[1] # {}

\* what the completion of the action (label, egg) leaves behind
EffectOf(label, egg) ==
    CASE label = "fetch" -> egg \in cache' /\ installed' = installed
      [] label = "remove" -> egg \notin installed'[1] /\ cache' = cache
      [] label = "install" -> egg \in installed'[1] /\ cache' = cache
      [] OTHER -> FALSE

\* C10: execute_actions runs the actions one at a time in plan order; when
\* action k fails the error reaches the caller, no later action runs and
\* what the actions before k did stays.
C10_InOrderNoRollback ==
    [][pc = "running" =>
          \/ /\ n < Len(actions)
             /\ pc' = "running"
             /\ actions' = actions
             /\ n' = n + 1
             /\ EffectOf(actions[n + 1][1], actions[n + 1][2])
          \/ /\ n < Len(actions)
             /\ pc' = "idle"
             /\ ret'.kind = "error"
             /\ installed' = installed
             /\ cache' = cache
             /\ Len(progress') = n
          \/ /\ n = Len(actions)
             /\ pc' = "idle"
             /\ ret' = Nothing
             /\ installed' = installed
             /\ cache' = cache]_vars

\* a batch has failed at its second or a later action, after an earlier
\* fetch had put an egg into the cache
C10_Witness ==
    /\ pc = "idle"
    /\ ret.kind = "error"
    /\ ret.err = "fetch failed"
    /\ Len(progress) >= 1
    /\ cache # {}


\* the action the loop of execute_actions is about to run
NextAction == actions[n + 1]

\* the loop went on to the action after NextAction
LoopGoesOn == pc' = "running" /\ actions' = actions /\ n' = n + 1

\* C11: a remove action naming an egg that is not installed does not abort
\* the batch: the installed set is unchanged by it and the loop goes on to
\* the following action; a fetch or an install that fails is never
\* swallowed: the loop goes on after a fetch only with the egg in the cache
\* and after an install only with the egg installed, and a fetch of an egg
\* the store does not have, or an install of an egg that is not in the
\* cache, ends the batch with an error.
C11_OnlyRemoveErrorSwallowed ==
    [][(pc = "running" /\ n < Len(actions)) =>
          LET label == NextAction[1]
              egg == NextAction[2]
          IN /\ (label = "remove" /\ egg \notin installed[1]) =>
                    (installed' = installed /\ LoopGoesOn)
             /\ (label = "fetch" /\ LoopGoesOn) => egg \in cache'
             /\ (label = "install" /\ LoopGoesOn) => egg \in installed'[1]
             /\ (label = "fetch" /\ egg \notin remote) =>
                    (pc' = "idle" /\ ret'.kind = "error")
             /\ (label = "install" /\ egg \notin cache) =>
                    (pc' = "idle" /\ ret'.kind = "error")]_vars

\* in the first batch, the remove of an egg that was not installed has been
\* passed and the action after it has run
C11_Witness ==
    /\ uuids = 1
    /\ pc = "running"
    /\ n = 2
    /\ actions[1][1] = "remove"
    /\ actions[1][2] \notin history[1]
    /\ actions[2][1] = "fetch"
    /\ progress = <<0, 1>>

\* the progress steps emitted after k completed actions: step=0 .. step=k-1
StepsAfter(k) == [i \in 1..k |-> i - 1]

\* C12: while a batch runs, one progress step has been emitted after each
\* completed action, in plan order; a batch of n > 0 actions that succeeds
\* has emitted exactly n steps, and a batch that fails at action k (0-based)
\* has emitted exactly k steps.
C12_ProgressSteps ==
    [][pc = "running" =>
          /\ progress = StepsAfter(n)
          /\ LoopGoesOn => progress' = Append(progress, n)
          /\ (pc' = "idle" /\ ret' = Nothing) =>
                 /\ Len(actions) > 0
                 /\ progress' = StepsAfter(Len(actions))
          /\ (pc' = "idle" /\ ret'.kind = "error") =>
                 /\ n < Len(actions)
                 /\ progress' = StepsAfter(n)]_vars

\* the first batch, of three actions, has completed
C12_Witness ==
    /\ pc = "idle"
    /\ uuids = 1
    /\ super_id = None
    /\ progress = <<0, 1, 2>>

\* C13: while a batch runs, the facade and every egg collection carry one
\* and the same id, which no earlier batch had; once the batch has ended, by
\* completing or by a failing action, the id is cleared (None) on the facade
\* and on every collection, so that no operation outside a batch sees an id.
C13_SuperIdScopedToBatch ==
    /\ pc = "running" =>
           /\ super_id # None
           /\ super_id = uuids
           /\ \A p \in Prefixes : coll_super_id[p] = super_id
    /\ pc # "running" =>
           /\ super_id = None
           /\ \A p \in Prefixes : coll_super_id[p] = None

\* the requirements given to remove
RemoveReqs == NameReqs \cup PinnedReqs

\* the eggs installed in the primary prefix that requirement req matches
InstalledMatches(req) ==
    {e \in installed[1] :
        /\ Metadata(e).name = req.name
        /\ req.version # None => Metadata(e).version = req.version
        /\ req.build # None => Metadata(e).build = req.build}

\* a call has failed before it executed anything
FailedUntouched ==
    /\ pc' = "idle"
    /\ ret'.kind = "error"
    /\ UNCHANGED <<installed, cache, uuids, super_id, progress>>

C14_PinnedWitness ==
    /\ hook
    /\ {A1, A2} \subseteq installed[1]
    /\ pc = "running"
    /\ actions = <<<<"remove", A1>>>>
    /\ call = NoCall

\* C15: installs and removes only ever change the primary prefix: no step
\* of install, remove or execute_actions changes the installed set of a
\* prefix other than the first, even when the egg named by a remove action
\* is installed only in a secondary prefix.
C15_SecondaryPrefixesUnchanged ==
    [][\A p \in Prefixes : p > 1 => installed'[p] = installed[p]]_vars

\* in the first batch, a remove action has run that named an egg installed
\* in the secondary prefix and not in the primary one
C15_Witness ==
    /\ uuids = 1
    /\ pc = "running"
    /\ n >= 1
    /\ actions[n][1] = "remove"
    /\ n = 1 \/ actions[n - 1][1] # "install"
    /\ actions[n][2] \in installed[2]
    /\ actions[n][2] \notin history[1]

\* the eggs of a set that a query by name selects
Named(S, name) == {e \in S : name = "" \/ split_eggname(e)[1] = name}

\* the eggs installed in any prefix
AllInstalled == UNION {installed[p] : p \in Prefixes}

\* C16: query returns one entry per key for exactly the keys of the remote
\* and of the installed results; the entry of a key that is both in the
\* remote store and in the installed set is the installed one.
C16_QueryMerges ==
    [][\A name \in QueryNames :
          Query(name) =>
              LET items == ret'.items
                  R == Named(remote, name)
                  I == Named(AllInstalled, name)
              IN /\ {it[1] : it \in items} = R \cup I
                 /\ \A x, y \in items : x[1] = y[1] => x = y
                 /\ \A k \in I : <<k, InstalledEntry>> \in items
                 /\ \A k \in R \ I : <<k, RemoteEntry>> \in items]_vars

\* a query has returned the installed entry of an egg that the store has
\* too, next to the remote entry of an egg that is not installed
C16_Witness ==
    /\ pc = "returned"
    /\ ret.kind = "items"
    /\ \E k \in remote \cap AllInstalled : <<k, InstalledEntry>> \in ret.items
    /\ \E k \in remote \ AllInstalled : <<k, RemoteEntry>> \in ret.items

\* since revision rev was recorded, the runs have only added eggs to the
\* prefix, as installs do
OnlyInstallsSince(rev) ==
    /\ \A i \in (rev + 1)..(Len(history) - 1) : history[i] \subseteq history[i + 1]
    /\ history[Len(history)] \subseteq installed[1]

RevertRuns(rev, bad) == rev < Len(history) /\ Revert(rev, TRUE, bad)

\* the log is the removes R, then the fetches F, then the installs I, each
\* egg at most once
RemovesFetchesInstalls(log, R, F, I) ==
    /\ log = MapSeq(R, "remove") \o MapSeq(F, "fetch") \o MapSeq(I, "install")
    /\ NoDuplicates(R)
    /\ NoDuplicates(F)
    /\ NoDuplicates(I)

RunEnds == cli.kind # "exited" /\ cli'.kind = "exited"

\* the installed set at the start of the run that is ending: the snapshot
\* of its history scope, or (revert has no scope) the set before the step
RunStart == IF scope # NoScope THEN scope ELSE installed[1]

\* C19: the history log is append-only: no step modifies or deletes a
\* revision, revisions are numbered by their position, so a new revision
\* has the greatest number, and a run of install, remove or revert appends
\* one revision, the installed set at its end, exactly when that set
\* differs from the set at its start.
C19_HistoryAppendOnly ==
    [][/\ Len(history') >= Len(history)
       /\ SubSeq(history', 1, Len(history)) = history
       /\ history' # history => RunEnds
       /\ RunEnds =>
              IF installed'[1] # RunStart
              THEN history' = Append(history, installed'[1])
              ELSE history' = history]_vars

\* C19 for the runs other than a revert that an exception ends
C19_ExceptFailedRevert ==
    [][/\ Len(history') >= Len(history)
       /\ SubSeq(history', 1, Len(history)) = history
       /\ history' # history => RunEnds
       /\ (RunEnds /\ ~(ret'.kind = "reverted" /\ ret'.err # "")) =>
              IF installed'[1] # RunStart
              THEN history' = Append(history, installed'[1])
              ELSE history' = history]_vars

\* C20: an enpkg run in which an operation failed (no egg found for a
\* requirement, package not installed, package installed more than once,
\* fetch or install failure) ends with exit code 1, and a run ends with
\* exit code 0 only when every requested operation succeeded.
C20_ExitCodeTellsFailure ==
    cli.kind = "exited" =>
        /\ cli.code \in {0, 1}
        /\ cli.failed => cli.code = 1
        /\ cli.code = 0 => ~cli.failed

\* '%s-%s-%d.egg' % t
FormatEggname(t) == t[1] \o <<"-">> \o t[2] \o <<"-">> \o str(t[3])
                        \o <<".", "e", "g", "g">>

\* C21: formatting what split_eggname returned for a string is_valid_eggname
\* accepts as '<name>-<version>-<build>.egg' gives the string back.
C21_EggnameRoundTrip ==
    (split # NotCalled /\ is_valid_eggname(eggname))
        => FormatEggname(split) = eggname


\* a step in which query, get_metadata or get_data of the store is called
UsesStore ==
    \/ \E arg \in Args, mode \in Modes, force \in BOOLEAN, forceall \in BOOLEAN :
           InstallActions(arg, mode, force, forceall)
    \/ \E name \in QueryNames : Query(name) \/ QueryRemote(name)
    \/ \E egg \in Eggs : Fetch(egg)
    \/ ExecFetch
    \/ ExecInstall

\* C22: the store is used only once connect has been called on it, and
\* connect is called at most once until reconnect is called or a connect
\* attempt fails.
C22_ConnectedBeforeUse ==
    /\ [][UsesStore => connected']_vars
    /\ [](connects <= 1)


\* C23: whenever index-depend.bz2 exists, its decompressed content is that
\* of index-depend.txt.
C23_Bz2MatchesTxt ==
    index_bz2.exists =>
        index_txt.exists /\ decompress(index_bz2.data) = index_txt.data

\* the header lines of the text index that name fn
HeadersOf(fn) == {i \in DOMAIN index_txt.data : index_txt.data[i] = Header(fn)}

\* C24: the text index holds one section per egg filename, and parse_index
\* maps each filename to the body of one section.
C24_OneSectionPerEgg ==
    \A fn \in DirNames :
        HeadersOf(fn) # {} =>
            /\ Cardinality(HeadersOf(fn)) = 1
            /\ parse_index(index_txt.data)[fn] = section_body(fn)


\* the keys parse_data requires of a body
RequiredKeys == Range(IF index_mode THEN index_var_names ELSE var_names)

\* the keys the body handed to parse_data assigns
AssignedKeys == {depend[i].key : i \in {j \in DOMAIN depend : depend[j].op = "assign"}}

\* the value the body assigns to key last
AssignedValue(key) ==
    LET at == {i \in DOMAIN depend : depend[i].op = "assign" /\ depend[i].key = key}
    IN  depend[CHOOSE i \in at : \A j \in at : j <= i].value

IsMd5(value) == value.type = "str" /\ Len(value.val) = 32

\* C25: a record parse_data returns has exactly the required keys, with the
\* values the body assigns to them; a body that lacks a required key, or in
\* index mode has an md5 that is no string of 32 characters or a size that is
\* no integer, is rejected with an error.
C25_RequiredKeysOnly ==
    parsed # NotParsed =>
        /\ parsed.kind = "record" =>
               /\ DOMAIN parsed.record = RequiredKeys
               /\ \A k \in RequiredKeys : parsed.record[k] = AssignedValue(k)
        /\ ~(RequiredKeys \subseteq AssignedKeys) => parsed.kind = "error"
        /\ (/\ index_mode
            /\ {"md5", "size"} \subseteq AssignedKeys
            /\ ~IsMd5(AssignedValue("md5")) \/ AssignedValue("size").type # "int")
               => parsed.kind = "error"

\* parse_data has returned a record in index mode for a body that assigns a
\* key that is not required
C25_Witness ==
    /\ parsed.kind = "record"
    /\ index_mode
    /\ "comment" \in AssignedKeys

\* parse_data has rejected a body in index mode whose md5 is too short
C25_RejectWitness ==
    /\ parsed.kind = "error"
    /\ index_mode
    /\ RequiredKeys \subseteq AssignedKeys
    /\ AssignedValue("md5") = StrValue("abc")

\* the body is made of assignments of literals only
LiteralsOnly == \A i \in DOMAIN depend : depend[i].op = "assign" /\ depend[i].literal

\* the body has every required key, a metadata_version of 1.1 or later and,
\* in index mode, a well-formed md5 and size
Complete ==
    /\ RequiredKeys \subseteq AssignedKeys
    /\ ge_1_1(AssignedValue("metadata_version"))
    /\ index_mode => IsMd5(AssignedValue("md5")) /\ AssignedValue("size").type = "int"

\* C26: a body is not evaluated as code: a body of literal assignments is
\* accepted, any other body is rejected with an error, and parsing changes
\* nothing but the record it returns.
C26_BodyNotEvaluated ==
    parsed # NotParsed =>
        /\ LiteralsOnly /\ Complete => parsed.kind = "record"
        /\ ~LiteralsOnly => parsed.kind = "error"
        /\ effects = {}


\* the host of the configuration setup_proxy was called with: that of the
\* proxy string if one is given, else PROXY_HOST
ConfiguredHost ==
    IF proxy_arg = "" THEN environ.PROXY_HOST
    ELSE IF parse_proxy(proxy_arg) = BadProxy THEN Absent
    ELSE splitport(parse_proxy(proxy_arg)[3])[1]

NoEnvironment ==
    [PROXY_HOST |-> Absent, PROXY_PORT |-> Absent, PROXY_USER |-> Absent,
     PROXY_PASS |-> Absent]

\* C27: setup_proxy returns True with a handler installed when a proxy host
\* is configured, returns False with nothing installed otherwise, raises
\* nothing but ValueError, and ignores the environment when a proxy string
\* is passed in.
C27_SetupProxy ==
    setup # NotSetUp =>
        /\ setup.kind = "error" => setup.err = "ValueError"
        /\ setup.kind = "return" =>
               /\ setup.value <=> NonEmpty(ConfiguredHost)
               /\ setup.value <=> opener # NoOpener
        /\ ~NonEmpty(ConfiguredHost) => opener = NoOpener
        /\ proxy_arg # "" =>
               \E typed \in Typed :
                   setup_proxy(proxy_arg, NoEnvironment, typed, NoOpener)
                       = [ret |-> setup, opener |-> opener]


\* the loop of the execute_actions of an install has run to its end
InstallDone == pc = "running" /\ n = Len(actions) /\ call # NoCall

\* C28: once install(x) has succeeded, install_actions(x) without force and
\* forceall returns the empty plan; install executing an empty plan runs no
\* action, draws no super id, emits no progress step and leaves the
\* installed eggs and the cache as they are.
C28_InstallIdempotent ==
    /\ [](InstallDone =>
              install_actions(call.arg, call.mode, FALSE, FALSE) = Plan(<<>>))
    /\ [][(InstallExecute /\ ret.plan = <<>>) =>
              /\ pc' = "idle"
              /\ ret' = Nothing
              /\ UNCHANGED <<installed, cache, uuids, super_id, coll_super_id,
                             actions, n, progress>>]_vars

\* an install that fetched, removed and installed eggs has succeeded
C28_Witness ==
    /\ InstallDone
    /\ EggsOf(actions, "install") # <<>>
    /\ EggsOf(actions, "remove") # <<>>

\* install has got an empty plan for an egg that is installed
C28_EmptyPlanWitness ==
    /\ pc = "planned"
    /\ ret = Plan(<<>>)
    /\ ~call.force /\ ~call.forceall
    /\ installed[1] # {}


\* C29: a plan returned by install_actions removes only eggs that are
\* installed in the primary prefix.
C29_RemovesOnlyFromPrimary ==
    PlanReturned =>
        \A i \in DOMAIN ret.plan :
            ret.plan[i][1] = "remove" => ret.plan[i][2] \in installed[1]


\* the tuple the loop of execute_actions has reached has an unknown label
AtUnknown == pc = "running" /\ n < Len(actions) /\ NextAction[1] \notin Labels

RunStops ==
    /\ cli.kind \in {"install", "remove"}
    /\ cli.done >= 1
    /\ cli'.kind = "exited"
    /\ cli'.code = 1

\* C31: when a run over several requirements stops on the failure of a
\* later requirement after the earlier ones have changed what is installed,
\* the prefix keeps the set the earlier requirements left, and leaving the
\* history scope appends one revision that records exactly this set
C31_PartialStateRecorded ==
    [][RunStops /\ installed[1] # scope =>
           /\ installed'[1] = installed[1]
           /\ history' = Append(history, installed[1])
           /\ scope' = NoScope]_vars

\* a run has stopped after a completed requirement, what is installed is
\* not what the run began with, and the last revision of the log, which is
\* not the first, records it
C31_Witness ==
    /\ cli.kind = "exited"
    /\ cli.code = 1
    /\ cli.done >= 1
    /\ cli.entered # installed[1]
    /\ Len(history) >= 2
    /\ history[Len(history)] = installed[1]

=============================================================================
